---- MODULE Spec2Model ----
(***************************************************************************)
(* A model of src/src/arcade_replay.py: the track geometry builder, the    *)
(* curve resampler, the viewport mapper, the replay controller and the     *)
(* presenter of F1ReplayWindow.                                            *)
(*                                                                         *)
(* Python's float is IEEE-754 binary64.  Every arithmetic operation of the *)
(* source is modelled as the exact operation followed by rounding to the   *)
(* nearest 53-bit significand, ties to even.  TLC's integers are 32 bits   *)
(* wide, so significands are kept as little-endian sequences of 15-bit     *)
(* limbs (Big* operators).  Exponents are unbounded: overflow to infinity  *)
(* and subnormals lie outside the value ranges the model reaches.          *)
(***************************************************************************)
EXTENDS Integers, Sequences, FiniteSets, TLC

-----------------------------------------------------------------------------
(* Natural numbers of arbitrary size: <<l1, ..., ln>> is the sum of         *)
(* l_i * LimbBase^(i-1), with no leading (high) zero limb; <<>> is zero.    *)

LimbBits == 10 + 5
LimbBase == 2 ^ LimbBits

Max(a, b) == IF b > a THEN b ELSE a
Min(a, b) == IF b < a THEN b ELSE a

\* an array computed element by element, as a sequence of values
Array(f) == f \o <<>>

\* e, with v computed first: the statements of the source run in order
Then(v, e) == IF v = v THEN e ELSE e

Limb(a, i) == IF 1 <= i /\ i <= Len(a) THEN a[i] ELSE 0

\* a without its high zero limbs
BigTrim(a) ==
  SubSeq(a, 1, CHOOSE n \in 0..Len(a) :
                 (n = 0 \/ a[n] # 0) /\ \A j \in (n + 1)..Len(a) : a[j] = 0)

\* for 0 <= n < LimbBase^3
BigOfNat(n) ==
  BigTrim(<<n % LimbBase, (n \div LimbBase) % LimbBase, n \div (LimbBase * LimbBase)>>)

\* for a < 2^31
BigToNat(a) == Limb(a, 1) + LimbBase * Limb(a, 2) + LimbBase * LimbBase * Limb(a, 3)

\* the comparison at the highest limb where a and b differ
BigCmpAt(a, b, D) ==
  IF D = {} THEN 0
  ELSE IF \E i \in D : a[i] < b[i] /\ \A j \in D : j <= i THEN -1 ELSE 1

BigCmp(a, b) ==
  IF Len(a) < Len(b) THEN -1
  ELSE IF Len(a) > Len(b) THEN 1
  ELSE BigCmpAt(a, b, {i \in 1..Len(a) : a[i] # b[i]})

\* a carry enters limb i when a lower limb sum overflows and every limb sum
\* between is LimbBase - 1
BigAdd(a, b) ==
  IF Len(a) = 0 THEN b
  ELSE IF Len(b) = 0 THEN a
  ELSE BigTrim(Array([i \in 1..(Max(Len(a), Len(b)) + 1) |->
    (Limb(a, i) + Limb(b, i)
     + (IF \E j \in 1..(i - 1) :
             /\ Limb(a, j) + Limb(b, j) >= LimbBase
             /\ \A k \in (j + 1)..(i - 1) : Limb(a, k) + Limb(b, k) = LimbBase - 1
        THEN 1 ELSE 0)) % LimbBase]))

\* a - b, for a >= b: a borrow enters limb i when a lower limb of a is below
\* that of b and the limbs between are equal
BigSub(a, b) ==
  IF Len(b) = 0 THEN a
  ELSE BigTrim(Array([i \in 1..Len(a) |->
    (a[i] - Limb(b, i) + LimbBase
     - (IF \E j \in 1..(i - 1) :
             /\ a[j] < Limb(b, j)
             /\ \A k \in (j + 1)..(i - 1) : a[k] = Limb(b, k)
        THEN 1 ELSE 0)) % LimbBase]))

BigShlLimbs(a, n) == IF Len(a) = 0 THEN a ELSE [i \in 1..n |-> 0] \o a

\* a * k, for 0 <= k < LimbBase: the low halves of the limb products plus
\* their high halves one limb up
BigMulSmall(a, k) ==
  IF Len(a) = 0 \/ k = 1 THEN a
  ELSE BigAdd(BigTrim(Array([i \in 1..Len(a) |-> (a[i] * k) % LimbBase])),
         BigShlLimbs(BigTrim(Array([i \in 1..Len(a) |-> (a[i] * k) \div LimbBase])), 1))

\* a * b, one limb of b at a time: acc is the sum for the limbs below i,
\* computed before limb i is taken
RECURSIVE BigMulFrom(_, _, _, _)
BigMulFrom(a, b, acc, i) ==
  IF Len(acc) >= 0 /\ i > Len(b) THEN acc
  ELSE BigMulFrom(a, b, BigAdd(acc, BigShlLimbs(BigMulSmall(a, b[i]), i - 1)), i + 1)

BigMul(a, b) == BigMulFrom(a, b, <<>>, 1)

\* a * 2^k
BigShl(a, k) ==
  IF Len(a) = 0 \/ k = 0 THEN a
  ELSE BigShlLimbs(BigMulSmall(a, 2 ^ (k % LimbBits)), k \div LimbBits)

\* floor(a / 2^k)
BigShr(a, k) ==
  LET q == k \div LimbBits
      r == k % LimbBits
      n == Len(a) - q
  IN  IF Len(a) <= q THEN <<>>
      ELSE BigTrim(Array([i \in 1..n |->
             (a[i + q] \div (2 ^ r))
             + (Limb(a, i + q + 1) % (2 ^ r)) * (2 ^ (LimbBits - r))]))

\* the number of bits of a limb
SmallBitLen(n) == Cardinality({k \in 0..(LimbBits - 1) : 2 ^ k <= n})

BigBitLen(a) ==
  IF Len(a) = 0 THEN 0 ELSE (Len(a) - 1) * LimbBits + SmallBitLen(a[Len(a)])

\* bit i of a, bit 0 the lowest
BigBit(a, i) == (Limb(a, (i \div LimbBits) + 1) \div (2 ^ (i % LimbBits))) % 2

\* whether the k lowest bits of a are all zero
BigLowZero(a, k) == BigShl(BigShr(a, k), k) = a

BigOdd(a) == Len(a) > 0 /\ a[1] % 2 = 1

\* one step of long division in base LimbBase: with d the quotient digit of
\* the running remainder r by b
BigDivDigit(q, r, b, d) ==
  [q |-> BigTrim(<<d>> \o q), r |-> BigSub(r, BigMulSmall(b, d))]

\* the estimate d from the two high limbs of r and the high limb of b is the
\* digit or up to two above it, b having its high limb >= LimbBase / 2
BigDivCorrect(q, r, b, d) ==
  BigDivDigit(q, r, b,
    IF BigCmp(BigMulSmall(b, d), r) <= 0 THEN d
    ELSE IF BigCmp(BigMulSmall(b, d - 1), r) <= 0 THEN d - 1
    ELSE d - 2)

BigDivEstimate(q, r, b) ==
  BigDivCorrect(q, r, b,
    Min((Limb(r, Len(b) + 1) * LimbBase + Limb(r, Len(b))) \div b[Len(b)],
        LimbBase - 1))

\* long division of a by b from limb i of a down, s holding the quotient and
\* the remainder of the limbs above i
RECURSIVE BigDivFrom(_, _, _, _)
BigDivFrom(a, b, s, i) ==
  IF Len(s.r) >= 0 /\ i < 1 THEN s
  ELSE BigDivFrom(a, b, BigDivEstimate(s.q, BigTrim(<<a[i]>> \o s.r), b), i - 1)

\* floor(a / b) and the remainder, b > 0 with its high limb LimbBase / 2 or
\* more: the Len(b) - 1 high limbs of a are below b and start as the remainder
BigDivHigh(a, b, n) ==
  BigDivFrom(a, b, [q |-> <<>>, r |-> SubSeq(a, n + 1, Len(a))], n)

\* a and b are first scaled by 2^s to bring the high limb of b to
\* LimbBase / 2 or more, which scales the remainder
BigDivShift(a, b, s) ==
  BigDivHigh(BigShl(a, s), BigShl(b, s), Max(Len(BigShl(a, s)) - Len(b) + 1, 0))

BigDivMod(a, b) ==
  IF Len(a) < Len(b) THEN [q |-> <<>>, r |-> a]
  ELSE BigDivShift(a, b, LimbBits - SmallBitLen(b[Len(b)]))

\* floor(sqrt(t)) for t < 2^30, in two steps of one byte and seven bits
SmallSqrtLow(t, hi) ==
  hi + Cardinality({l \in 1..127 : (hi + l) * (hi + l) <= t})

SmallSqrt(t) == SmallSqrtLow(t, 128 * Cardinality({h \in 1..255 : (128 * h) * (128 * h) <= t}))

\* floor(sqrt(n)) by Newton's iteration: x >= sqrt(n) decreases to
\* (x + q) div 2 with q = n div x, until q >= x
RECURSIVE BigSqrtFrom(_, _, _)
BigSqrtFrom(n, x, q) ==
  IF BigCmp(x, q) <= 0 THEN x
  ELSE BigSqrtFrom(n, BigShr(BigAdd(x, q), 1),
                   BigDivMod(n, BigShr(BigAdd(x, q), 1)).q)

BigSqrtNewton(n, x) == BigSqrtFrom(n, x, BigDivMod(n, x).q)

\* the start of the iteration: the root of the high 30 bits of n or fewer,
\* plus one, scaled back (s is even)
BigSqrtStart(n, s) ==
  BigShl(BigOfNat(SmallSqrt(BigToNat(BigShr(n, s))) + 1), s \div 2)

\* floor(sqrt(n)) and whether n is not a perfect square
BigSqrtExact(n, r) == [r |-> r, inexact |-> BigMul(r, r) # n]

BigSqrt(n) ==
  IF Len(n) = 0 THEN [r |-> <<>>, inexact |-> FALSE]
  ELSE BigSqrtExact(n,
         BigSqrtNewton(n, BigSqrtStart(n, 2 * ((Max(BigBitLen(n) - 30, 0) + 1) \div 2))))

-----------------------------------------------------------------------------
(* binary64 values: [neg, m, e] is (-1)^neg * m * 2^e with m a 53-bit       *)
(* significand (2^52 <= m < 2^53), or m = <<>> for zero.                    *)

Precision == 53

FZero == [neg |-> FALSE, m |-> <<>>, e |-> 0]

IsZero(x) == Len(x.m) = 0

\* q * 2^e, q of at most Precision + 1 bits with its low bit clear when it
\* has Precision + 1
RoundCarry(neg, q, e) ==
  IF BigBitLen(q) > Precision THEN [neg |-> neg, m |-> BigShr(q, 1), e |-> e + 1]
                              ELSE [neg |-> neg, m |-> q, e |-> e]

\* n with its sh low bits dropped: up when they are more than half a unit of
\* the last kept place, or exactly half and the kept part is odd
RoundDrop(neg, n, e, sticky, sh) ==
  IF BigBit(n, sh - 1) = 1
     /\ (sticky \/ ~BigLowZero(n, sh - 1) \/ BigOdd(BigShr(n, sh)))
  THEN RoundCarry(neg, BigAdd(BigShr(n, sh), <<1>>), e + sh)
  ELSE [neg |-> neg, m |-> BigShr(n, sh), e |-> e + sh]

RoundLen(neg, n, e, sticky, len) ==
  IF len <= Precision
  THEN [neg |-> neg, m |-> BigShl(n, Precision - len), e |-> e - (Precision - len)]
  ELSE RoundDrop(neg, n, e, sticky, len - Precision)

\* n * 2^e (sticky: bits were already dropped below n) rounded to nearest, ties to even
RoundF(neg, n, e, sticky) ==
  IF Len(n) = 0 THEN FZero ELSE RoundLen(neg, n, e, sticky, BigBitLen(n))

\* the float of a Python int literal
FInt(n) == RoundF(n < 0, BigOfNat(IF n < 0 THEN -n ELSE n), 0, FALSE)

FNeg(x) == IF IsZero(x) THEN x ELSE [x EXCEPT !.neg = ~x.neg]

FAbs(x) == [x EXCEPT !.neg = FALSE]

\* whether |x| is a power of two: scaling by it only moves the exponent
IsPow2(x) == x.m = BigShl(<<1>>, Precision - 1)

\* x * y
FMul(x, y) ==
  IF IsZero(x) \/ IsZero(y) THEN FZero
  ELSE IF IsPow2(y)
  THEN [neg |-> x.neg # y.neg, m |-> x.m, e |-> x.e + y.e + (Precision - 1)]
  ELSE RoundF(x.neg # y.neg, BigMul(x.m, y.m), x.e + y.e, FALSE)

\* the quotient d.q, inexact when the division left a remainder d.r
RoundQuot(neg, d, e) == RoundF(neg, d.q, e, Len(d.r) > 0)

\* x / y, y nonzero
FDiv(x, y) ==
  IF IsZero(x) THEN FZero
  ELSE IF IsPow2(y)
  THEN [neg |-> x.neg # y.neg, m |-> x.m, e |-> x.e - y.e - (Precision - 1)]
  ELSE RoundQuot(x.neg # y.neg, BigDivMod(BigShl(x.m, Precision + 3), y.m),
                 x.e - y.e - (Precision + 3))

\* a * 2^e with sign xneg plus b * 2^e with sign yneg, c the comparison of a with b
FAddAligned(xneg, yneg, a, b, e, c) ==
  IF xneg # yneg /\ c = 0 THEN FZero
  ELSE RoundF(IF xneg = yneg \/ c > 0 THEN xneg ELSE yneg,
              IF xneg = yneg THEN BigAdd(a, b)
              ELSE IF c > 0 THEN BigSub(a, b) ELSE BigSub(b, a),
              e, FALSE)

FAddMag(xneg, yneg, a, b, e) == FAddAligned(xneg, yneg, a, b, e, BigCmp(a, b))

FAddExp(x, y, e) == FAddMag(x.neg, y.neg, BigShl(x.m, x.e - e), BigShl(y.m, y.e - e), e)

\* x + y
FAdd(x, y) ==
  IF IsZero(x) THEN y
  ELSE IF IsZero(y) THEN x
  ELSE FAddExp(x, y, IF x.e < y.e THEN x.e ELSE y.e)

FSub(x, y) == FAdd(x, FNeg(y))

RoundRoot(s, e) == RoundF(FALSE, s.r, e, s.inexact)

\* sqrt(m * 2^e), e even
FSqrtEven(m, e) ==
  RoundRoot(BigSqrt(BigShl(m, 2 * (Precision \div 2 + 2))),
            (e - 2 * (Precision \div 2 + 2)) \div 2)

\* sqrt(x), x >= 0
FSqrt(x) ==
  IF IsZero(x) THEN FZero
  ELSE FSqrtEven(IF x.e % 2 = 1 THEN BigShl(x.m, 1) ELSE x.m,
                 IF x.e % 2 = 1 THEN x.e - 1 ELSE x.e)

\* x < y
FLt(x, y) ==
  LET magLt(a, b) == \* |a| < |b|, both nonzero
        a.e < b.e \/ (a.e = b.e /\ BigCmp(a.m, b.m) < 0)
  IN  IF IsZero(x) THEN ~IsZero(y) /\ ~y.neg
      ELSE IF IsZero(y) THEN x.neg
      ELSE IF x.neg # y.neg THEN x.neg
      ELSE IF x.neg THEN magLt(y, x) ELSE magLt(x, y)

FLe(x, y) == ~FLt(y, x)

\* Python's min(a, b): b if b < a, else a; max(a, b): b if b > a, else a
FMin(a, b) == IF FLt(b, a) THEN b ELSE a
FMax(a, b) == IF FLt(a, b) THEN b ELSE a

\* int(x): truncation toward zero, for |x| < 2^31
FTrunc(x) ==
  IF IsZero(x) THEN 0
  ELSE LET n == IF x.e >= 0 THEN BigToNat(BigShl(x.m, x.e))
                            ELSE BigToNat(BigShr(x.m, -x.e))
       IN  IF x.neg THEN -n ELSE n

-----------------------------------------------------------------------------
(* Helpers on Python values.                                                *)

\* numpy's element-wise operations on arrays of one length
Map(Op(_), a) == Array([i \in 1..Len(a) |-> Op(a[i])])
Zip(Op(_, _), a, b) == Array([i \in 1..Min(Len(a), Len(b)) |-> Op(a[i], b[i])])

\* min() and max() of a non-empty array: m is that of the elements before i
RECURSIVE ArrayMinFrom(_, _, _)
ArrayMinFrom(a, m, i) ==
  IF i > Len(a) THEN m ELSE Then(m, ArrayMinFrom(a, FMin(m, a[i]), i + 1))

ArrayMin(a) == ArrayMinFrom(a, a[1], 2)

RECURSIVE ArrayMaxFrom(_, _, _)
ArrayMaxFrom(a, m, i) ==
  IF i > Len(a) THEN m ELSE Then(m, ArrayMaxFrom(a, FMax(m, a[i]), i + 1))

ArrayMax(a) == ArrayMaxFrom(a, a[1], 2)

-----------------------------------------------------------------------------
(* Track Geometry Builder: build_track_from_example_lap.                    *)

\* np.gradient(f) with unit spacing: central differences inside, one-sided
\* differences at both ends (at least two samples)
gradient(f) ==
  LET n == Len(f)
  IN  Array([i \in 1..n |->
        IF i = 1 THEN FDiv(FSub(f[2], f[1]), FInt(1))
        ELSE IF i = n THEN FDiv(FSub(f[n], f[n - 1]), FInt(1))
        ELSE FDiv(FSub(f[i + 1], f[i - 1]), FInt(2))])

\* norm = np.sqrt(dx**2 + dy**2); norm[norm == 0] = 1.0
tangent_norm(dx, dy) ==
  LET length(u, v) == FSqrt(FAdd(FMul(u, u), FMul(v, v)))
      nonzero(norm) == IF IsZero(norm) THEN FInt(1) ELSE norm
  IN  Map(nonzero, Zip(length, dx, dy))

\* the returned boundaries and the bounding box over all three polylines
track_bounds(plot_x, plot_y, x_inner, y_inner, x_outer, y_outer) ==
  Then(<<x_inner, y_inner, x_outer, y_outer>>,
  [plot_x_ref |-> plot_x, plot_y_ref |-> plot_y,
   x_inner |-> x_inner, y_inner |-> y_inner,
   x_outer |-> x_outer, y_outer |-> y_outer,
   x_min |-> FMin(FMin(ArrayMin(plot_x), ArrayMin(x_inner)), ArrayMin(x_outer)),
   x_max |-> FMax(FMax(ArrayMax(plot_x), ArrayMax(x_inner)), ArrayMax(x_outer)),
   y_min |-> FMin(FMin(ArrayMin(plot_y), ArrayMin(y_inner)), ArrayMin(y_outer)),
   y_max |-> FMax(FMax(ArrayMax(plot_y), ArrayMax(y_inner)), ArrayMax(y_outer))])

\* x_outer = plot_x + nx * (track_width / 2), x_inner = plot_x - nx * (...),
\* the same for y; ox and oy are the offsets nx * (w / 2) and ny * (w / 2)
track_offset(plot_x, plot_y, ox, oy) ==
  Then(<<ox, oy>>,
       track_bounds(plot_x, plot_y,
                    Zip(FSub, plot_x, ox), Zip(FSub, plot_y, oy),
                    Zip(FAdd, plot_x, ox), Zip(FAdd, plot_y, oy)))

\* the normal of the unit tangent (dx, dy) is nx = -dy, ny = dx
track_normals(plot_x, plot_y, dx, dy, half) ==
  LET offset(n) == FMul(n, half)
  IN  Then(<<dx, dy>>,
           track_offset(plot_x, plot_y, Map(offset, Map(FNeg, dy)), Map(offset, dx)))

\* dx /= norm; dy /= norm
track_tangents(plot_x, plot_y, gx, gy, norm, track_width) ==
  Then(norm,
       track_normals(plot_x, plot_y, Zip(FDiv, gx, norm), Zip(FDiv, gy, norm),
                     FDiv(FInt(track_width), FInt(2))))

track_gradients(plot_x, plot_y, gx, gy, track_width) ==
  Then(<<gx, gy>>,
       track_tangents(plot_x, plot_y, gx, gy, tangent_norm(gx, gy), track_width))

track_of(plot_x, plot_y, track_width) ==
  track_gradients(plot_x, plot_y, gradient(plot_x), gradient(plot_y), track_width)

build_track_from_example_lap(example_lap, track_width) ==
  track_of(Array(example_lap.X), Array(example_lap.Y), track_width)

-----------------------------------------------------------------------------
(* Curve Resampler: _interpolate_points.                                    *)

\* np.linspace(0, 1, num), num >= 2: i * step, the last sample set to the stop
linspace01(num) ==
  LET step == FDiv(FInt(1), FInt(num - 1))
  IN  Array([i \in 1..num |-> IF i = num THEN FInt(1) ELSE FMul(FInt(i - 1), step)])

\* the largest j with xp[j] <= x, for xp[1] <= x
RECURSIVE interp_index(_, _, _)
interp_index(x, xp, j) ==
  IF j < Len(xp) /\ FLe(xp[j + 1], x) THEN interp_index(x, xp, j + 1) ELSE j

\* the value on the segment from sample j to sample j + 1, or fp[j] itself at
\* the last sample and at a sample point
interp_segment(x, xp, fp, n, j) ==
  IF j = n THEN fp[j]
  ELSE IF xp[j] = x THEN fp[j]
  ELSE FAdd(FMul(FDiv(FSub(fp[j + 1], fp[j]), FSub(xp[j + 1], xp[j])),
                 FSub(x, xp[j])),
            fp[j])

interp_samples(x, xp, fp, n) ==
  IF n = 1 THEN fp[1]
  ELSE IF FLt(xp[n], x) THEN fp[n]
  ELSE IF FLt(x, xp[1]) THEN fp[1]
  ELSE interp_segment(x, xp, fp, n, interp_index(x, xp, 1))

\* np.interp(x, xp, fp) for one x: piecewise linear, clamped outside xp;
\* xp and fp have one length, and a single sample gives a constant
interp(x, xp, fp) == interp_samples(x, xp, fp, Min(Len(xp), Len(fp)))

interpolate_points(xs, ys, interp_points) ==
  LET t_old == linspace01(Len(xs))
      t_new == linspace01(interp_points)
      point(t) == <<interp(t, t_old, xs), interp(t, t_old, ys)>>
  IN  Then(<<t_old, t_new>>, Map(point, t_new))

-----------------------------------------------------------------------------
VARIABLES
  frames, n_frames, playback_speed, frame_index, paused,     \* replay state
  track,                           \* plot_x_ref .. y_max, as build_track returns them
  world_inner_points, world_outer_points,
  screen_inner_points, screen_outer_points,
  world_scale, tx, ty,                                       \* viewport transform
  width, height,                                             \* window size
  last                                                       \* the callback that ran last

replay   == <<frames, n_frames, playback_speed, frame_index, paused>>
geometry == <<track, world_inner_points, world_outer_points>>
viewport == <<screen_inner_points, screen_outer_points, world_scale, tx, ty, width, height>>
vars     == <<replay, geometry, viewport, last>>

SCREEN_WIDTH == 1920
SCREEN_HEIGHT == 1200

-----------------------------------------------------------------------------
(* Viewport Mapper: update_scaling and world_to_screen.                     *)

\* sx = scale * x + tx, sy = scale * y + ty
to_screen(scale, trans_x, trans_y, x, y) ==
  <<FAdd(FMul(scale, x), trans_x), FAdd(FMul(scale, y), trans_y)>>

world_to_screen(x, y) == to_screen(world_scale, tx, ty, x, y)

\* [self.world_to_screen(x, y) for x, y in points] under a given transform
to_screen_points(scale, trans_x, trans_y, points) ==
  LET mapped(p) == to_screen(scale, trans_x, trans_y, p[1], p[2])
  IN  Map(mapped, points)

\* world_w = max(1.0, x_max - x_min), and the same for world_h
world_extent(lo, hi) == FMax(FInt(1), FSub(hi, lo))

\* the whole window taken as usable, the padding forgotten
usable_extent_unpadded(screen) == FInt(screen)

\* usable_w = screen_w * (1 - 2 * padding) with padding = 0.05
usable_extent(screen) ==
  FMul(FInt(screen), FSub(FInt(1), FMul(FInt(2), FDiv(FInt(5), FInt(100)))))

\* world_cx = (x_min + x_max) / 2
world_center(lo, hi) == FDiv(FAdd(lo, hi), FInt(2))

\* tx = screen_cx - world_scale * world_cx with screen_cx = screen_w / 2
translation(screen, scale, center) ==
  FSub(FDiv(FInt(screen), FInt(2)), FMul(scale, center))

centered(scale, box, screen_w, screen_h) ==
  Then(scale,
  [world_scale |-> scale,
   tx |-> translation(screen_w, scale, world_center(box.x_min, box.x_max)),
   ty |-> translation(screen_h, scale, world_center(box.y_min, box.y_max))])

\* the scale and translation update_scaling computes from the bounding box
\* (self.x_min, self.x_max, self.y_min, self.y_max) and a window size
scaling(box, screen_w, screen_h) ==
  centered(FMin(FDiv(usable_extent(screen_w), world_extent(box.x_min, box.x_max)),
                FDiv(usable_extent(screen_h), world_extent(box.y_min, box.y_max))),
           box, screen_w, screen_h)

\* the transform updated and the screen points left as they were
update_scaling_stale(screen_w, screen_h) ==
  /\ \E s \in {scaling(track, screen_w, screen_h)} :
       world_scale' = s.world_scale /\ tx' = s.tx /\ ty' = s.ty
  /\ UNCHANGED <<screen_inner_points, screen_outer_points>>

\* the new transform is assigned first; the screen points are then mapped
\* through it
update_scaling(screen_w, screen_h) ==
  /\ \E s \in {scaling(track, screen_w, screen_h)} :
       world_scale' = s.world_scale /\ tx' = s.tx /\ ty' = s.ty
  /\ screen_inner_points' = to_screen_points(world_scale', tx', ty', world_inner_points)
  /\ screen_outer_points' = to_screen_points(world_scale', tx', ty', world_outer_points)

on_resize(w, h) ==
  /\ width' = w
  /\ height' = h
  /\ UNCHANGED <<replay, geometry>>
  /\ update_scaling(w, h)
  /\ last' = "on_resize"

-----------------------------------------------------------------------------
(* Replay Controller: on_update and on_key_press.                           *)

\* the largest |playback_speed| the model lets UP reach
MaxSpeed == 4

SeekFrames == 10

\* the float literals 0.1 and 2.0
MinSpeed == FDiv(FInt(1), FInt(10))
Two == FInt(2)

Keys == {"SPACE", "RIGHT", "LEFT", "UP", "DOWN", "KEY_1", "KEY_2", "KEY_3", "KEY_4", "OTHER"}

\* round half to even, as Python's round(), for a speed within the model's range
PyRound(x) ==
  LET k == CHOOSE i \in (-(MaxSpeed + 2))..(MaxSpeed + 2) :
             FLe(FInt(i), x) /\ FLt(x, FInt(i + 1))
      frac == FSub(x, FInt(k))
      half == FDiv(FInt(1), FInt(2))
  IN  IF FLt(frac, half) THEN k
      ELSE IF FLt(half, frac) THEN k + 1
      ELSE IF k % 2 = 0 THEN k ELSE k + 1

\* the step with the speed rounded to the nearest integer
step_rounded(speed) == Max(1, PyRound(speed))

\* step = max(1, int(self.playback_speed))
step_of(speed) == Max(1, FTrunc(speed))

\* the advance without the check against n_frames
advance_unclamped(index, speed, n) == index + step_of(speed)

\* the advance starting over after the last frame
advance_wrapping(index, speed, n) == (index + step_of(speed)) % n

\* self.frame_index += step, then set to n_frames - 1 when it is n_frames or more
advance(index, speed, n) ==
  IF index + step_of(speed) >= n THEN n - 1 ELSE index + step_of(speed)

on_update ==
  /\ frame_index' = IF paused THEN frame_index
                    ELSE advance(frame_index, playback_speed, n_frames)
  /\ last' = "on_update"
  /\ UNCHANGED <<frames, n_frames, playback_speed, paused, geometry, viewport>>

\* a seek resuming a paused session
toggle_on_seek(symbol, p) == IF symbol = "SPACE" THEN ~p ELSE p /\ symbol \notin {"LEFT", "RIGHT"}

\* SPACE: self.paused = not self.paused
toggle(symbol, p) == IF symbol = "SPACE" THEN ~p ELSE p

\* the seek without the clamp at the first frame
seek_below_zero(symbol, index, n) ==
  IF symbol = "RIGHT" THEN Min(index + SeekFrames, n - 1)
  ELSE IF symbol = "LEFT" THEN index - SeekFrames
  ELSE index

\* RIGHT and LEFT: ten frames forward or back, kept within the session
seek(symbol, index, n) ==
  IF symbol = "RIGHT" THEN Min(index + SeekFrames, n - 1)
  ELSE IF symbol = "LEFT" THEN Max(index - SeekFrames, 0)
  ELSE index

\* UP, DOWN and the presets 1 to 4
set_speed(symbol, speed) ==
  IF symbol = "UP" THEN FMul(speed, Two)
  ELSE IF symbol = "DOWN" THEN FMax(MinSpeed, FDiv(speed, Two))
  ELSE IF symbol = "KEY_1" THEN FDiv(FInt(1), FInt(2))
  ELSE IF symbol = "KEY_2" THEN FInt(1)
  ELSE IF symbol = "KEY_3" THEN FInt(2)
  ELSE IF symbol = "KEY_4" THEN FInt(4)
  ELSE speed

on_key_press(symbol) ==
  /\ symbol = "UP" => FLe(FAbs(FMul(playback_speed, Two)), FInt(MaxSpeed))
  /\ paused' = toggle(symbol, paused)
  /\ frame_index' = seek(symbol, frame_index, n_frames)
  /\ playback_speed' = set_speed(symbol, playback_speed)
  /\ last' = symbol
  /\ UNCHANGED <<frames, n_frames, geometry, viewport>>

-----------------------------------------------------------------------------
(* Presenter: what on_draw hands to the rendering collaborator, as a        *)
(* function of the state it reads.  on_draw writes no field of the window.  *)

\* frames[frame_index], a Python list index: negative indices count from the end
frame_exists == -n_frames <= frame_index /\ frame_index < n_frames
frame == IF frame_index < 0 THEN frames[n_frames + frame_index + 1]
                            ELSE frames[frame_index + 1]

\* the line strips drawn: a boundary with fewer than two points is skipped
track_strips ==
  (IF Len(screen_inner_points) > 1 THEN <<screen_inner_points>> ELSE <<>>)
  \o (IF Len(screen_outer_points) > 1 THEN <<screen_outer_points>> ELSE <<>>)

\* one filled circle per driver, retired or not
markers_of_all(drivers) ==
  [i \in 1..Len(drivers) |->
    [code |-> drivers[i].code, at |-> world_to_screen(drivers[i].x, drivers[i].y)]]

\* one filled circle per driver of the frame whose rel_dist is not 1, in the
\* order of the frame's drivers
RECURSIVE markers_of(_)
markers_of(drivers) ==
  IF Len(drivers) = 0 THEN <<>>
  ELSE LET d == Head(drivers)
       IN  (IF d.rel_dist = FInt(1) THEN <<>>
            ELSE <<[code |-> d.code, at |-> world_to_screen(d.x, d.y)]>>)
           \o markers_of(Tail(drivers))

car_markers == markers_of(frame.drivers)

\* list.sort(key=dist, reverse=True): stable, equal keys keep their order
RECURSIVE insert_by_dist(_, _)
insert_by_dist(sorted, d) ==
  IF Len(sorted) = 0 THEN <<d>>
  ELSE IF Head(sorted).dist < d.dist THEN <<d>> \o sorted
  ELSE <<Head(sorted)>> \o insert_by_dist(Tail(sorted), d)

RECURSIVE sort_by_dist(_)
sort_by_dist(drivers) ==
  IF Len(drivers) = 0 THEN <<>>
  ELSE insert_by_dist(sort_by_dist(SubSeq(drivers, 1, Len(drivers) - 1)),
                      drivers[Len(drivers)])

\* the leaderboard rows, top to bottom: "<rank>. <code>" or "<rank>. <code>   OUT"
leaderboard ==
  LET driver_list == sort_by_dist(frame.drivers)
  IN  [i \in 1..Len(driver_list) |->
        [rank |-> i, code |-> driver_list[i].code,
         out |-> driver_list[i].rel_dist = FInt(1)]]

\* max(drivers, key=(lap, dist)): the first driver with the largest key
RECURSIVE leader_of(_)
leader_of(drivers) ==
  IF Len(drivers) = 1 THEN drivers[1]
  ELSE LET best == leader_of(SubSeq(drivers, 1, Len(drivers) - 1))
           d    == drivers[Len(drivers)]
       IN  IF d.lap > best.lap \/ (d.lap = best.lap /\ d.dist > best.dist)
           THEN d ELSE best

leader_lap == leader_of(frame.drivers).lap

on_draw ==
  /\ frame_exists
  /\ Len(frame.drivers) > 0
  /\ last' = "on_draw"
  /\ UNCHANGED <<replay, geometry, viewport>>

-----------------------------------------------------------------------------
(* F1ReplayWindow.__init__ and the sessions, laps and speeds it is given.   *)

\* the most frames of a session and the resampled points per boundary
MaxFrames == 2
InterpPoints == 3

Lap(points) == [X |-> [i \in 1..Len(points) |-> FInt(points[i][1])],
                Y |-> [i \in 1..Len(points) |-> FInt(points[i][2])]]

Driver(code, x, y, lap, dist, rel_dist) ==
  [code |-> code, x |-> FInt(x), y |-> FInt(y), lap |-> lap, dist |-> dist,
   rel_dist |-> rel_dist]

\* a session of n frames: three cars, VER retired (rel_dist = 1) from the
\* second frame on and ahead of HAM by distance, HAM and LEC level on the first
SessionFrames(n) ==
  [k \in 1..n |->
    [t |-> k - 1,
     drivers |-> <<Driver("HAM", 100 * k, 0, 1, 100, FDiv(FInt(k), FInt(4))),
                   Driver("VER", 1000, 50, 1, 120,
                          IF k = 1 THEN FDiv(FInt(1), FInt(2)) ELSE FInt(1)),
                   Driver("LEC", 0, 600, 1, 100 * k, FDiv(FInt(1), FInt(4)))>>]]

\* the state __init__ leaves, the track geometry t built
Window(the_frames, speed, t) ==
  /\ frames = the_frames
  /\ n_frames = Len(the_frames)
  /\ playback_speed = speed
  /\ frame_index = 0
  /\ paused = FALSE
  /\ track = t
  /\ world_inner_points = interpolate_points(t.x_inner, t.y_inner, InterpPoints)
  /\ world_outer_points = interpolate_points(t.x_outer, t.y_outer, InterpPoints)
  /\ width = SCREEN_WIDTH
  /\ height = SCREEN_HEIGHT
  /\ \E s \in {scaling(t, SCREEN_WIDTH, SCREEN_HEIGHT)} :
       world_scale = s.world_scale /\ tx = s.tx /\ ty = s.ty
  /\ screen_inner_points = to_screen_points(world_scale, tx, ty, world_inner_points)
  /\ screen_outer_points = to_screen_points(world_scale, tx, ty, world_outer_points)
  /\ last = "__init__"

\* build_track_from_example_lap(example_lap) with its default track_width
TrackWidth == 200

Construct(the_frames, example_lap, speed) ==
  \E t \in {build_track_from_example_lap(example_lap, TrackWidth)} :
    Window(the_frames, speed, t)

ExampleLap == Lap(<<<<0, 0>>, <<1000, 0>>, <<1000, 600>>, <<0, 600>>>>)

WindowSizes == {<<SCREEN_WIDTH, SCREEN_HEIGHT>>, <<800, 600>>}

Init == \E n \in 1..MaxFrames : Construct(SessionFrames(n), ExampleLap, FInt(1))

Next ==
  \/ on_update
  \/ \E symbol \in Keys : on_key_press(symbol)
  \/ \E size \in WindowSizes : on_resize(size[1], size[2])
  \/ on_draw

Spec == Init /\ [][Next]_vars

-----------------------------------------------------------------------------
(* The replay controller alone, over long sessions and every initial speed  *)
(* a caller may pass.                                                       *)

\* the session length of the end-to-end scenario
ScenarioFrames == 100

\* a session of n frames with one car
LongSession(n) ==
  [k \in 1..n |-> [t |-> k - 1, drivers |-> <<Driver("HAM", k, 0, 1, k, FZero)>>]]

\* playback_speed as passed by the caller: the default 1.0, and values no
\* check of __init__ rejects
InitialSpeeds == {FInt(1), FDiv(FInt(1), FInt(16)), FZero, FInt(-1)}

InitReplay ==
  \/ Construct(LongSession(ScenarioFrames), ExampleLap, FInt(1))
  \/ \E n \in {1, SeekFrames + 2}, speed \in InitialSpeeds :
       Construct(LongSession(n), ExampleLap, speed)

NextReplay ==
  \/ on_update
  \/ \E symbol \in Keys : on_key_press(symbol)

SpecReplay == InitReplay /\ [][NextReplay]_vars

-----------------------------------------------------------------------------
(* The viewport mapper alone, over bounding boxes and window sizes.         *)

\* a track whose boundaries are the lower and upper side of a bounding box
BoxTrack(x_min, x_max, y_min, y_max) ==
  [plot_x_ref |-> <<x_min, x_max>>, plot_y_ref |-> <<y_min, y_max>>,
   x_inner |-> <<x_min, x_max>>, y_inner |-> <<y_min, y_min>>,
   x_outer |-> <<x_min, x_max>>, y_outer |-> <<y_max, y_max>>,
   x_min |-> x_min, x_max |-> x_max, y_min |-> y_min, y_max |-> y_max]

Boxes ==
  {BoxTrack(FInt(x), FInt(x + w), FInt(y), FInt(y + h)) :
     x \in {-110, 0}, w \in {0, 100, 200}, y \in {-101, 0}, h \in {20, 50, 200}}

ViewportSizes == WindowSizes \cup {<<1000, 500>>, <<1, 1>>}

InitViewport == \E box \in Boxes : Window(SessionFrames(1), FInt(1), box)

NextViewport == \E size \in ViewportSizes : on_resize(size[1], size[2])

SpecViewport == InitViewport /\ [][NextViewport]_vars

-----------------------------------------------------------------------------
(* The track geometry builder alone, over reference laps of three samples,  *)
(* among them laps with a repeated sample and laps that turn back.          *)

TrackLaps ==
  {Lap(<<<<0, 0>>, mid, end>>) :
     mid \in {<<100, 0>>, <<100, 100>>, <<0, 0>>, <<0, 300>>, <<-50, 20>>},
     end \in {<<200, 0>>, <<0, 0>>, <<100, 200>>, <<0, 300>>, <<-300, -400>>}}

InitTrack == \E lap \in TrackLaps : Construct(SessionFrames(1), lap, FInt(1))

NextTrack ==
  \/ \E size \in WindowSizes : on_resize(size[1], size[2])
  \/ on_draw

SpecTrack == InitTrack /\ [][NextTrack]_vars

-----------------------------------------------------------------------------
(* The claims.                                                              *)

\* C1: with at least one frame, the frame index is always at least 0 and
\* below the frame count, so frames[frame_index] exists at every render tick
C1_IndexInRange ==
  n_frames >= 1 => (0 <= frame_index /\ frame_index < n_frames /\ frame_exists)

\* a render tick on the last frame of the longest session, the window resized
C1_Witness ==
  /\ last = "on_draw"
  /\ n_frames = MaxFrames
  /\ frame_index = n_frames - 1
  /\ width # SCREEN_WIDTH

\* the integer part of a speed, toward zero
IntegerPart(x) ==
  CHOOSE i \in (-(MaxSpeed + 2))..(MaxSpeed + 2) :
    IF FLt(x, FZero) THEN FLt(FInt(i - 1), x) /\ FLe(x, FInt(i))
                     ELSE FLe(FInt(i), x) /\ FLt(x, FInt(i + 1))

C3_SpeedFloor ==
  /\ []FLe(MinSpeed, playback_speed)
  /\ [][last' = "UP" => playback_speed' = FMul(playback_speed, FInt(2))]_vars

\* C4: at speed 1 and playing, a tick moves the index by exactly one frame
\* below the last frame and leaves it on the last frame
C4_UnitStep ==
  [][(last' = "on_update" /\ ~paused /\ playback_speed = FInt(1)) =>
       frame_index' = IF frame_index < n_frames - 1 THEN frame_index + 1
                      ELSE frame_index]_vars

\* the scenario's session of 100 frames, ticked at speed 1 onto its last frame
C4_Witness ==
  /\ last = "on_update"
  /\ ~paused
  /\ playback_speed = FInt(1)
  /\ n_frames = ScenarioFrames
  /\ frame_index = ScenarioFrames - 1

\* C5: RIGHT and LEFT move the index by +10 and -10, clamped to
\* [0, frame_count - 1], paused or playing, and leave the paused flag and the
\* playback speed alone
C5_Seek ==
  [][(last' \in {"RIGHT", "LEFT"}) =>
       /\ frame_index' = Max(0, Min(frame_index + (IF last' = "RIGHT" THEN 10 ELSE -10),
                                    n_frames - 1))
       /\ paused' = paused
       /\ playback_speed' = playback_speed]_vars

\* a seek forward by ten whole frames while paused
C5_Witness ==
  /\ last = "RIGHT"
  /\ paused
  /\ frame_index = 10
  /\ n_frames = ScenarioFrames

\* C6: only SPACE changes the paused flag, and it toggles it; a tick while
\* paused leaves the index; a tick on the last frame leaves the index there
\* and the session playing; a tick below the last frame advances
C6_PauseProtocol ==
  [][/\ paused' # paused => last' = "SPACE"
     /\ last' = "SPACE" => paused' = ~paused
     /\ (last' = "on_update" /\ paused) => frame_index' = frame_index
     /\ (last' = "on_update" /\ ~paused /\ frame_index = n_frames - 1) =>
          (frame_index' = n_frames - 1 /\ ~paused')
     /\ (last' = "on_update" /\ ~paused /\ frame_index < n_frames - 1) =>
          frame_index' > frame_index]_vars

\* a tick on the last frame of a session of several frames, still playing
C6_Witness ==
  /\ last = "on_update"
  /\ ~paused
  /\ n_frames > 1
  /\ frame_index = n_frames - 1

\* the bounding-box center and the window center
BoxCenter == <<world_center(track.x_min, track.x_max), world_center(track.y_min, track.y_max)>>
WindowCenter == <<FDiv(FInt(width), Two), FDiv(FInt(height), Two)>>

\* the corners and the center of the bounding box, and the boundary points
BoxPoints ==
  {<<x, y>> : x \in {track.x_min, track.x_max}, y \in {track.y_min, track.y_max}}
  \cup {BoxCenter}
  \cup {world_inner_points[i] : i \in 1..Len(world_inner_points)}
  \cup {world_outer_points[i] : i \in 1..Len(world_outer_points)}

\* min(0.9 w / world_w, 0.9 h / world_h), the world extents floored at 1.0
ClaimedScale ==
  FMin(FDiv(FMul(FDiv(FInt(9), FInt(10)), FInt(width)),
            FMax(FInt(1), FSub(track.x_max, track.x_min))),
       FDiv(FMul(FDiv(FInt(9), FInt(10)), FInt(height)),
            FMax(FInt(1), FSub(track.y_max, track.y_min))))

\* 0.05 and 0.95 of a window side
PadLow(screen) == FMul(FDiv(FInt(5), FInt(100)), FInt(screen))
PadHigh(screen) == FMul(FDiv(FInt(95), FInt(100)), FInt(screen))

\* the end-to-end scenario: box x:[0,100], y:[0,50] in a 1000x500 window
IsScenarioBox ==
  /\ track.x_min = FInt(0) /\ track.x_max = FInt(100)
  /\ track.y_min = FInt(0) /\ track.y_max = FInt(50)
  /\ width = 1000 /\ height = 500

ScenarioMapped ==
  /\ world_scale = FInt(9)
  /\ world_to_screen(FInt(50), FInt(25)) = <<FInt(500), FInt(250)>>

\* the rounding allowance for a screen coordinate of world coordinate v along
\* a window side: 2^-50 (side + |scale * v| + |scale * center|)
Allowance(screen, v, c) ==
  LET sum == FAdd(FInt(screen), FAdd(FAbs(FMul(world_scale, v)), FAbs(FMul(world_scale, c))))
  IN  [sum EXCEPT !.e = @ - 50]

Within(a, lo, hi, t) == FLe(FSub(lo, t), a) /\ FLe(a, FAdd(hi, t))

\* C7, as amended: the scale is min(0.9 w / world_w, 0.9 h / world_h); the
\* bounding-box center maps to the window center, and every point of the box
\* into the padded area, up to the rounding allowance; the scenario is exact
C7_Rounded ==
  /\ world_scale = ClaimedScale
  /\ \A p \in BoxPoints :
       LET q == world_to_screen(p[1], p[2])
           ax == Allowance(width, p[1], BoxCenter[1])
           ay == Allowance(height, p[2], BoxCenter[2])
       IN  /\ Within(q[1], PadLow(width), PadHigh(width), ax)
           /\ Within(q[2], PadLow(height), PadHigh(height), ay)
           /\ p = BoxCenter =>
                /\ Within(q[1], WindowCenter[1], WindowCenter[1], ax)
                /\ Within(q[2], WindowCenter[2], WindowCenter[2], ay)
  /\ IsScenarioBox => ScenarioMapped

\* the scenario's window after a resize to 1000x500
C7_Witness == last = "on_resize" /\ IsScenarioBox /\ ScenarioMapped

\* C7, as stated: the bounding-box center maps exactly to the window center
\* and every point of the box maps inside [0.05w, 0.95w] x [0.05h, 0.95h]
C7_Exact ==
  /\ world_scale = ClaimedScale
  /\ world_to_screen(BoxCenter[1], BoxCenter[2]) = WindowCenter
  /\ \A p \in BoxPoints :
       LET q == world_to_screen(p[1], p[2])
       IN  /\ FLe(PadLow(width), q[1]) /\ FLe(q[1], PadHigh(width))
           /\ FLe(PadLow(height), q[2]) /\ FLe(q[2], PadHigh(height))
  /\ IsScenarioBox => ScenarioMapped

\* whether the offset (dx, dy) of a boundary point from its centerline point
\* has length w/2, to within one part in 2^20 of its square
AtHalfWidth(dx, dy) ==
  LET half == FDiv(FInt(TrackWidth), Two)
      sq   == FMul(half, half)
  IN  FLe(FAbs(FSub(FAdd(FMul(dx, dx), FMul(dy, dy)), sq)), [sq EXCEPT !.e = @ - 20])

\* C8, as stated: at every centerline sample the outer and the inner boundary
\* point are w/2 from the centerline point, on opposite sides of it, and the
\* bounding box contains every centerline, inner and outer point
C8_Boundaries ==
  \A i \in 1..Len(track.plot_x_ref) :
    LET ox == FSub(track.x_outer[i], track.plot_x_ref[i])
        oy == FSub(track.y_outer[i], track.plot_y_ref[i])
        ix == FSub(track.x_inner[i], track.plot_x_ref[i])
        iy == FSub(track.y_inner[i], track.plot_y_ref[i])
    IN  /\ AtHalfWidth(ox, oy)
        /\ AtHalfWidth(ix, iy)
        /\ FLt(FAdd(FMul(ox, ix), FMul(oy, iy)), FZero)
        /\ \A x \in {track.plot_x_ref[i], track.x_inner[i], track.x_outer[i]} :
             FLe(track.x_min, x) /\ FLe(x, track.x_max)
        /\ \A y \in {track.plot_y_ref[i], track.y_inner[i], track.y_outer[i]} :
             FLe(track.y_min, y) /\ FLe(y, track.y_max)

\* C9: of every driver of the frame, one with rel_dist = 1 has no marker and
\* one row "OUT", any other has one marker and one row without it; the row
\* is at the driver's rank by descending dist, equal dists in frame order
C9_Presenter ==
  \A i \in 1..Len(frame.drivers) :
    LET d    == frame.drivers[i]
        out  == d.rel_dist = FInt(1)
        rank == 1 + Cardinality({j \in 1..Len(frame.drivers) : frame.drivers[j].dist > d.dist})
                  + Cardinality({j \in 1..(i - 1) : frame.drivers[j].dist = d.dist})
    IN  /\ Cardinality({k \in 1..Len(car_markers) : car_markers[k].code = d.code})
             = IF out THEN 0 ELSE 1
        /\ Cardinality({k \in 1..Len(leaderboard) : leaderboard[k].code = d.code}) = 1
        /\ leaderboard[rank] = [rank |-> rank, code |-> d.code, out |-> out]

\* a render tick on the second frame: VER retired, second by distance
C9_Witness ==
  /\ last = "on_draw"
  /\ frame_index = 1
  /\ leaderboard[2] = [rank |-> 2, code |-> "VER", out |-> TRUE]
  /\ Len(car_markers) = 2

\* C10: the transform is the one computed from the window's current size and
\* the cached screen points are the world points mapped through it
C10_Fresh ==
  /\ <<world_scale, tx, ty>> =
       LET s == scaling(track, width, height) IN <<s.world_scale, s.tx, s.ty>>
  /\ screen_inner_points = to_screen_points(world_scale, tx, ty, world_inner_points)
  /\ screen_outer_points = to_screen_points(world_scale, tx, ty, world_outer_points)

\* a render tick in a window resized to 800x600
C10_Witness ==
  /\ last = "on_draw"
  /\ width = 800
  /\ height = 600
  /\ Len(screen_inner_points) = InterpPoints

====
